---- MODULE Spec2Model ----
(***************************************************************************)
(* The recipe API: three owner-scoped tables (Recipe, Tag, Ingredient),    *)
(* the many-to-many links from Recipe to Tag and to Ingredient, and the    *)
(* HTTP handlers of recipe/views.py.  One action is one request handled    *)
(* to its response; the response stays in `res` until the client has read  *)
(* it (Receive).  SpecUpload adds the requests to the upload-image URL,    *)
(* SpecUsers is user creation through core/helper.py, and SpecRace is      *)
(* recipe writes handled at once, statement by statement.                  *)
(***************************************************************************)
EXTENDS Integers, Sequences, FiniteSets, TLC

\* ------------------------------------------------------------------ bounds
\* The rows ever inserted, over the three tables together.
MaxRows == 4
\* The characters of an email address given to user creation.
MaxEmailLen == 3
\* The rows of the user table.
MaxUsers == 1
\* The recipe writes that are under way at once.
MaxWrites == 2

\* ------------------------------------------------------------ value sets
Users == {"u1", "u2"}
AnonymousUser == "anon"
Callers == Users \cup {AnonymousUser}
Names == {"a", "b"}
\* The names a request gives a tag, and those it gives an ingredient.
TagNames == Names
IngredientNames == {"a"}

HTTP_200_OK == 200
HTTP_201_CREATED == 201
HTTP_204_NO_CONTENT == 204
HTTP_400_BAD_REQUEST == 400
HTTP_401_UNAUTHORIZED == 401
HTTP_404_NOT_FOUND == 404
HTTP_405_METHOD_NOT_ALLOWED == 405

VARIABLES
    recipes,             \* Recipe rows: [id, user (the owner), image]
    tags,                \* Tag rows: [id, user, name]
    ingredients,         \* Ingredient rows: [id, user, name]
    recipe_tags,         \* Recipe.tags link rows: <<recipe id, tag id>>
    recipe_ingredients,  \* Recipe.ingredients link rows
    seq,                 \* the next id of each table
    res,                 \* the last request with its response, until read
    users,               \* User rows: [email, is_staff, is_superuser]
    ret,                 \* the last create_user call with its outcome
    writes               \* the concurrent recipe writes, each at its step

db == <<recipes, tags, ingredients, recipe_tags, recipe_ingredients, seq>>
usr == <<users, ret>>
vars == <<recipes, tags, ingredients, recipe_tags, recipe_ingredients, seq, res,
          users, ret, writes>>

Idle == [op |-> "idle", caller |-> "", id |-> 0, input |-> <<>>, status |-> 0,
         data |-> <<>>]

\* No create_user call is under way.
NoCall == [call |-> <<>>, raised |-> "", user |-> <<>>]

\* A concurrent recipe write that has not begun.
NoWrite == [pc |-> "begin", user |-> "", name |-> "", rid |-> 0, found |-> {},
           resolved |-> 0]

\* Recipe.image of a recipe that has no uploaded image.
NoImage == ""

\* Name lists of a payload: the lists over S that name no name twice.
NameLists(S) ==
    {l \in UNION {[1..n -> S] : n \in 0..Cardinality(S)} :
        \A i, j \in 1..Len(l) : i # j => l[i] # l[j]}

\* The order of names under order_by("-name").
Rank(name) == CASE name = "a" -> 1 [] name = "b" -> 2

Range(s) == {s[i] : i \in 1..Len(s)}

\* An optional field or query parameter: <<>> when the request omits it.
Optional(S) == {<<>>} \cup {<<x>> : x \in S}

\* ------------------------------------------------------- request inputs
\* The body of a recipe write: every field may be omitted.
RecipeBodies ==
    [tags : Optional(NameLists(TagNames)),
     ingredients : Optional(NameLists(IngredientNames)),
     user : Optional(Users)]

\* The query string of a recipe list: comma-separated lists of ids, taken
\* among the ids the tables have given out.
RecipeQueries ==
    [tags : Optional(SUBSET (1..(seq.tag - 1)) \ {{}}),
     ingredients : Optional(SUBSET (1..(seq.ingredient - 1)) \ {{}})]

\* ------------------------------------------------------------ the views
\* Mutant: permission_classes = [AllowAny].
AllowAny(caller) == TRUE

\* permission_classes = [IsAuthenticated]
IsAuthenticated(caller) == caller \in Users

\* Mutant: the recipe queryset without its owner filter.
RecipeViewSet_queryset_all(user) == recipes

\* RecipeViewSet.get_queryset: self.queryset.filter(user=self.request.user)
RecipeViewSet_get_queryset(user) == {r \in recipes : r.user = user}

\* Mutant: the tag queryset without its owner filter.
TagViewSet_queryset_all(user) == tags

\* TagViewSet.get_queryset
TagViewSet_get_queryset(user) == {t \in tags : t.user = user}

\* IngredientViewSet.get_queryset
IngredientViewSet_get_queryset(user) == {i \in ingredients : i.user = user}

\* Mutant: .order_by("id"), lowest id first.
RECURSIVE order_by_id_asc(_)
order_by_id_asc(rows) ==
    IF rows = {} THEN <<>>
    ELSE LET m == CHOOSE r \in rows : \A o \in rows : r.id <= o.id
         IN  <<m>> \o order_by_id_asc(rows \ {m})

\* .order_by("-id"): the rows as a list, highest id first.
RECURSIVE order_by_id_desc(_)
order_by_id_desc(rows) ==
    IF rows = {} THEN <<>>
    ELSE LET m == CHOOSE r \in rows : \A o \in rows : o.id <= r.id
         IN  <<m>> \o order_by_id_desc(rows \ {m})

\* .order_by("-name"): every list of the rows with the names descending
\* (the database orders rows of equal name as it pleases).
RECURSIVE order_by_name_desc(_)
order_by_name_desc(rows) ==
    IF rows = {} THEN {<<>>}
    ELSE UNION {{<<m>> \o t : t \in order_by_name_desc(rows \ {m})} :
                m \in {r \in rows : \A o \in rows : Rank(o.name) <= Rank(r.name)}}

\* GenericAPIView.get_object over a view's queryset: the rows with that pk
\* (none: Http404).
get_object(queryset, pk) == {r \in queryset : r.id = pk}

\* Mutant: save() given a user that is not the caller.
perform_create_other(caller) == CHOOSE u \in Users : u # caller

\* RecipeViewSet.perform_create: serializer.save(user=self.request.user)
perform_create(caller) == caller

\* What a serializer shows of a row: a recipe with its tags and ingredients.
TagSerializer(t) == [id |-> t.id, name |-> t.name]
IngredientSerializer(i) == [id |-> i.id, name |-> i.name]
to_representation(r, T, RT, I, RI) ==
    [id |-> r.id,
     tags |-> {TagSerializer(t) : t \in {x \in T : <<r.id, x.id>> \in RT}},
     ingredients |-> {IngredientSerializer(i) : i \in {x \in I : <<r.id, x.id>> \in RI}}]
RecipeSerializer(r) ==
    to_representation(r, tags, recipe_tags, ingredients, recipe_ingredients)

Serialize(rowseq, Ser(_)) == [k \in 1..Len(rowseq) |-> Ser(rowseq[k])]

\* ------------------------------------------- reconciliation on a write
\* Get-or-create of each name of the list for `user`, in list order: the
\* possible outcomes, each the table, its next id and the resolved ids.
RECURSIVE get_or_create(_, _, _, _, _)
get_or_create(rows, nxt, user, names, acc) ==
    IF names = <<>> THEN {[rows |-> rows, nxt |-> nxt, resolved |-> acc]}
    ELSE LET found == {r \in rows : r.user = user /\ r.name = Head(names)}
         IN  IF found # {}
             THEN UNION {get_or_create(rows, nxt, user, Tail(names), acc \cup {r.id}) :
                         r \in found}
             ELSE get_or_create(
                      rows \cup {[id |-> nxt, user |-> user, name |-> Head(names)]},
                      nxt + 1, user, Tail(names), acc \cup {nxt})

\* The links of a recipe replaced by links to `ids`.
set_links(links, rid, ids) ==
    {l \in links : l[1] # rid} \cup {<<rid, i>> : i \in ids}

\* RecipeSerializer.create: the row with the owner save() was given, then
\* the tags and ingredients of the payload (none when omitted).
RecipeSerializer_create(owner, body) ==
    LET rid == seq.recipe
        row == [id |-> rid, user |-> owner, image |-> NoImage]
        tnames == IF body.tags = <<>> THEN <<>> ELSE body.tags[1]
        inames == IF body.ingredients = <<>> THEN <<>> ELSE body.ingredients[1]
    IN  {[instance |-> row,
          recipes |-> recipes \cup {row},
          tags |-> t.rows,
          ingredients |-> i.rows,
          recipe_tags |-> set_links(recipe_tags, rid, t.resolved),
          recipe_ingredients |-> set_links(recipe_ingredients, rid, i.resolved),
          seq |-> [recipe |-> rid + 1, tag |-> t.nxt, ingredient |-> i.nxt]] :
         t \in get_or_create(tags, seq.tag, owner, tnames, {}),
         i \in get_or_create(ingredients, seq.ingredient, owner, inames, {})}

\* Mutant: an omitted tags/ingredients list taken as the empty list.
RecipeSerializer_update_omitted_as_empty(instance, body) ==
    LET rid == instance.id
        tnames == IF body.tags = <<>> THEN <<>> ELSE body.tags[1]
        inames == IF body.ingredients = <<>> THEN <<>> ELSE body.ingredients[1]
    IN  {[instance |-> instance,
          recipes |-> recipes,
          tags |-> t.rows,
          ingredients |-> i.rows,
          recipe_tags |-> set_links(recipe_tags, rid, t.resolved),
          recipe_ingredients |-> set_links(recipe_ingredients, rid, i.resolved),
          seq |-> [seq EXCEPT !.tag = t.nxt, !.ingredient = i.nxt]] :
         t \in get_or_create(tags, seq.tag, instance.user, tnames, {}),
         i \in get_or_create(ingredients, seq.ingredient, instance.user, inames, {})}

\* RecipeSerializer.update: a supplied tags/ingredients list replaces the
\* links, an omitted one leaves them; a `user` field is not a field of the
\* serializer and is ignored.
RecipeSerializer_update(instance, body) ==
    LET rid == instance.id
        row == instance
        ts == IF body.tags = <<>>
              THEN {[rows |-> tags, nxt |-> seq.tag,
                     resolved |-> {l[2] : l \in {x \in recipe_tags : x[1] = rid}}]}
              ELSE get_or_create(tags, seq.tag, instance.user, body.tags[1], {})
        is == IF body.ingredients = <<>>
              THEN {[rows |-> ingredients, nxt |-> seq.ingredient,
                     resolved |-> {l[2] : l \in {x \in recipe_ingredients : x[1] = rid}}]}
              ELSE get_or_create(ingredients, seq.ingredient, instance.user,
                                 body.ingredients[1], {})
    IN  {[instance |-> row,
          recipes |-> (recipes \ {instance}) \cup {row},
          tags |-> t.rows,
          ingredients |-> i.rows,
          recipe_tags |-> set_links(recipe_tags, rid, t.resolved),
          recipe_ingredients |-> set_links(recipe_ingredients, rid, i.resolved),
          seq |-> [seq EXCEPT !.tag = t.nxt, !.ingredient = i.nxt]] :
         t \in ts, i \in is}

\* The tables stay within the model's bound.
WithinBounds(out) ==
    (out.seq.recipe - 1) + (out.seq.tag - 1) + (out.seq.ingredient - 1) <= MaxRows

\* The response to a request: `input` is the query or body the handler read
\* (<<>> when it answered before reading one), `id` the pk of the URL (0 on
\* a list route).
Respond(op, caller, pk, input, status, data) ==
    /\ res' = [op |-> op, caller |-> caller, id |-> pk, input |-> input,
               status |-> status, data |-> data]
    /\ UNCHANGED <<usr, writes>>

Commit(out) ==
    /\ recipes' = out.recipes
    /\ tags' = out.tags
    /\ ingredients' = out.ingredients
    /\ recipe_tags' = out.recipe_tags
    /\ recipe_ingredients' = out.recipe_ingredients
    /\ seq' = out.seq

\* ------------------------------------------------------------------ Init
Init ==
    /\ recipes = {}
    /\ tags = {}
    /\ ingredients = {}
    /\ recipe_tags = {}
    /\ recipe_ingredients = {}
    /\ seq = [recipe |-> 1, tag |-> 1, ingredient |-> 1]
    /\ res = Idle
    /\ users = {}
    /\ ret = NoCall
    /\ writes = [w \in 1..MaxWrites |-> NoWrite]

\* --------------------------------------------------------- recipe views
\* GET /recipes/?tags=..&ingredients=..
ListRecipes(caller) ==
    /\ res = Idle
    /\ IF ~IsAuthenticated(caller)
       THEN Respond("list_recipes", caller, 0, <<>>, HTTP_401_UNAUTHORIZED, <<>>)
       ELSE \E query \in RecipeQueries :
               Respond("list_recipes", caller, 0, <<query>>, HTTP_200_OK,
                       Serialize(order_by_id_desc(RecipeViewSet_get_queryset(caller)),
                                 RecipeSerializer))
    /\ UNCHANGED db

\* GET /recipes/{id}/
RetrieveRecipe(caller, pk) ==
    LET found == get_object(RecipeViewSet_get_queryset(caller), pk) IN
    /\ res = Idle
    /\ IF ~IsAuthenticated(caller)
       THEN Respond("retrieve_recipe", caller, pk, <<>>, HTTP_401_UNAUTHORIZED, <<>>)
       ELSE IF found = {}
       THEN Respond("retrieve_recipe", caller, pk, <<>>, HTTP_404_NOT_FOUND, <<>>)
       ELSE \E r \in found :
               Respond("retrieve_recipe", caller, pk, <<>>, HTTP_200_OK,
                       <<RecipeSerializer(r)>>)
    /\ UNCHANGED db

\* POST /recipes/
CreateRecipe(caller) ==
    /\ res = Idle
    /\ IF ~IsAuthenticated(caller)
       THEN /\ Respond("create_recipe", caller, 0, <<>>, HTTP_401_UNAUTHORIZED, <<>>)
            /\ UNCHANGED db
       ELSE \E body \in RecipeBodies :
            \E out \in RecipeSerializer_create(perform_create(caller), body) :
               /\ WithinBounds(out)
               /\ Commit(out)
               /\ Respond("create_recipe", caller, 0, <<body>>, HTTP_201_CREATED,
                          <<to_representation(out.instance, out.tags, out.recipe_tags,
                                              out.ingredients, out.recipe_ingredients)>>)

\* PUT/PATCH /recipes/{id}/
UpdateRecipe(caller, pk) ==
    LET found == get_object(RecipeViewSet_get_queryset(caller), pk) IN
    /\ res = Idle
    /\ IF ~IsAuthenticated(caller)
       THEN /\ Respond("update_recipe", caller, pk, <<>>, HTTP_401_UNAUTHORIZED, <<>>)
            /\ UNCHANGED db
       ELSE IF found = {}
       THEN /\ Respond("update_recipe", caller, pk, <<>>, HTTP_404_NOT_FOUND, <<>>)
            /\ UNCHANGED db
       ELSE \E instance \in found, body \in RecipeBodies :
            \E out \in RecipeSerializer_update(instance, body) :
               /\ WithinBounds(out)
               /\ Commit(out)
               /\ Respond("update_recipe", caller, pk, <<body>>, HTTP_200_OK,
                          <<to_representation(out.instance, out.tags, out.recipe_tags,
                                              out.ingredients, out.recipe_ingredients)>>)

\* DELETE /recipes/{id}/
DestroyRecipe(caller, pk) ==
    LET found == get_object(RecipeViewSet_get_queryset(caller), pk) IN
    /\ res = Idle
    /\ IF ~IsAuthenticated(caller)
       THEN /\ Respond("destroy_recipe", caller, pk, <<>>, HTTP_401_UNAUTHORIZED, <<>>)
            /\ UNCHANGED db
       ELSE IF found = {}
       THEN /\ Respond("destroy_recipe", caller, pk, <<>>, HTTP_404_NOT_FOUND, <<>>)
            /\ UNCHANGED db
       ELSE /\ recipes' = recipes \ found
            /\ recipe_tags' = {l \in recipe_tags : l[1] # pk}
            /\ recipe_ingredients' = {l \in recipe_ingredients : l[1] # pk}
            /\ UNCHANGED <<tags, ingredients, seq>>
            /\ Respond("destroy_recipe", caller, pk, <<>>, HTTP_204_NO_CONTENT, <<>>)

\* ------------------------------------------------------------ tag views
\* GET /tags/?assigned_only=..
ListTags(caller) ==
    /\ res = Idle
    /\ IF ~IsAuthenticated(caller)
       THEN Respond("list_tags", caller, 0, <<>>, HTTP_401_UNAUTHORIZED, <<>>)
       ELSE \E assigned_only \in BOOLEAN,
               rows \in order_by_name_desc(TagViewSet_get_queryset(caller)) :
               Respond("list_tags", caller, 0, <<assigned_only>>, HTTP_200_OK,
                       Serialize(rows, TagSerializer))
    /\ UNCHANGED db

\* PUT/PATCH /tags/{id}/
UpdateTag(caller, pk) ==
    LET found == get_object(TagViewSet_get_queryset(caller), pk) IN
    /\ res = Idle
    /\ IF ~IsAuthenticated(caller)
       THEN /\ Respond("update_tag", caller, pk, <<>>, HTTP_401_UNAUTHORIZED, <<>>)
            /\ UNCHANGED db
       ELSE IF found = {}
       THEN /\ Respond("update_tag", caller, pk, <<>>, HTTP_404_NOT_FOUND, <<>>)
            /\ UNCHANGED db
       ELSE \E t \in found, name \in TagNames :
               LET row == [t EXCEPT !.name = name] IN
               /\ tags' = (tags \ {t}) \cup {row}
               /\ UNCHANGED <<recipes, ingredients, recipe_tags,
                              recipe_ingredients, seq>>
               /\ Respond("update_tag", caller, pk, <<name>>, HTTP_200_OK,
                          <<TagSerializer(row)>>)

\* DELETE /tags/{id}/
DestroyTag(caller, pk) ==
    LET found == get_object(TagViewSet_get_queryset(caller), pk) IN
    /\ res = Idle
    /\ IF ~IsAuthenticated(caller)
       THEN /\ Respond("destroy_tag", caller, pk, <<>>, HTTP_401_UNAUTHORIZED, <<>>)
            /\ UNCHANGED db
       ELSE IF found = {}
       THEN /\ Respond("destroy_tag", caller, pk, <<>>, HTTP_404_NOT_FOUND, <<>>)
            /\ UNCHANGED db
       ELSE /\ tags' = tags \ found
            /\ recipe_tags' = {l \in recipe_tags : l[2] # pk}
            /\ UNCHANGED <<recipes, ingredients, recipe_ingredients, seq>>
            /\ Respond("destroy_tag", caller, pk, <<>>, HTTP_204_NO_CONTENT, <<>>)

\* ----------------------------------------------------- ingredient views
\* GET /ingredients/?assigned_only=..
ListIngredients(caller) ==
    /\ res = Idle
    /\ IF ~IsAuthenticated(caller)
       THEN Respond("list_ingredients", caller, 0, <<>>, HTTP_401_UNAUTHORIZED, <<>>)
       ELSE \E assigned_only \in BOOLEAN,
               rows \in order_by_name_desc(IngredientViewSet_get_queryset(caller)) :
               Respond("list_ingredients", caller, 0, <<assigned_only>>, HTTP_200_OK,
                       Serialize(rows, IngredientSerializer))
    /\ UNCHANGED db

\* PUT/PATCH /ingredients/{id}/
UpdateIngredient(caller, pk) ==
    LET found == get_object(IngredientViewSet_get_queryset(caller), pk) IN
    /\ res = Idle
    /\ IF ~IsAuthenticated(caller)
       THEN /\ Respond("update_ingredient", caller, pk, <<>>, HTTP_401_UNAUTHORIZED, <<>>)
            /\ UNCHANGED db
       ELSE IF found = {}
       THEN /\ Respond("update_ingredient", caller, pk, <<>>, HTTP_404_NOT_FOUND, <<>>)
            /\ UNCHANGED db
       ELSE \E i \in found, name \in IngredientNames :
               LET row == [i EXCEPT !.name = name] IN
               /\ ingredients' = (ingredients \ {i}) \cup {row}
               /\ UNCHANGED <<recipes, tags, recipe_tags, recipe_ingredients, seq>>
               /\ Respond("update_ingredient", caller, pk, <<name>>, HTTP_200_OK,
                          <<IngredientSerializer(row)>>)

\* DELETE /ingredients/{id}/: the view set has no destroy action.
DestroyIngredient(caller, pk) ==
    /\ res = Idle
    /\ IF ~IsAuthenticated(caller)
       THEN Respond("destroy_ingredient", caller, pk, <<>>, HTTP_401_UNAUTHORIZED, <<>>)
       ELSE Respond("destroy_ingredient", caller, pk, <<>>,
                    HTTP_405_METHOD_NOT_ALLOWED, <<>>)
    /\ UNCHANGED db

\* The client reads the response; the next request can be made.
Receive ==
    /\ res # Idle
    /\ res' = Idle
    /\ UNCHANGED <<db, usr, writes>>

\* A request is made when the client holds no unread response.
Next ==
    \/ res = Idle /\ \E c \in Callers : ListRecipes(c)
    \/ res = Idle /\ \E c \in Callers, pk \in 1..MaxRows : RetrieveRecipe(c, pk)
    \/ res = Idle /\ \E c \in Callers : CreateRecipe(c)
    \/ res = Idle /\ \E c \in Callers, pk \in 1..MaxRows : UpdateRecipe(c, pk)
    \/ res = Idle /\ \E c \in Callers, pk \in 1..MaxRows : DestroyRecipe(c, pk)
    \/ res = Idle /\ \E c \in Callers : ListTags(c)
    \/ res = Idle /\ \E c \in Callers, pk \in 1..MaxRows : UpdateTag(c, pk)
    \/ res = Idle /\ \E c \in Callers, pk \in 1..MaxRows : DestroyTag(c, pk)
    \/ res = Idle /\ \E c \in Callers : ListIngredients(c)
    \/ res = Idle /\ \E c \in Callers, pk \in 1..MaxRows : UpdateIngredient(c, pk)
    \/ res = Idle /\ \E c \in Callers, pk \in 1..MaxRows : DestroyIngredient(c, pk)
    \/ Receive

Spec == Init /\ [][Next]_vars

\* ------------------------------------------------------- the image upload
\* The `image` part of an upload: an image file, or text that is no image.
ImagePayloads == {"jpeg", "notimage"}

\* POST /recipes/{id}/upload-image/: RecipeViewSet declares no upload_image
\* action, so the URL has no route and is answered 404 whoever sends it and
\* whatever it carries.
UploadImage(caller, pk) ==
    /\ res = Idle
    /\ \E payload \in ImagePayloads :
          Respond("upload_image", caller, pk, <<payload>>, HTTP_404_NOT_FOUND, <<>>)
    /\ UNCHANGED db

\* The requests of the view sets and the upload requests.
NextUpload ==
    \/ Next
    \/ res = Idle /\ \E c \in Callers, pk \in 1..MaxRows : UploadImage(c, pk)

SpecUpload == Init /\ [][NextUpload]_vars

\* -------------------------------------------------------- user creation
\* An email is a string over these characters, here a sequence of them.
Chars == {"a", "A", "@"}
Emails == UNION {[1..n -> Chars] : n \in 0..MaxEmailLen}

\* defaults["email"] of the helper ("user@example.com").
DefaultEmail == <<"a", "@", "a">>

\* The keyword arguments of a create_user call, each one optional.
UserParams == [email : Optional(Emails), is_superuser : Optional(BOOLEAN)]

\* str.lower()
lower(str) == [k \in 1..Len(str) |-> IF str[k] = "A" THEN "a" ELSE str[k]]

\* The place of the last "@" of an email, 0 when it has none.
LastAt(email) ==
    LET at == {k \in 1..Len(email) : email[k] = "@"}
    IN  IF at = {} THEN 0 ELSE CHOOSE k \in at : \A j \in at : j <= k

\* Mutant: the whole address lower-cased.
normalize_email_lower_all(email) == lower(email)

\* BaseUserManager.normalize_email: email.rsplit("@", 1), the domain part
\* lower-cased; an email without "@" is left as it is.
normalize_email(email) ==
    LET k == LastAt(email)
    IN  IF k = 0 THEN email
        ELSE SubSeq(email, 1, k) \o lower(SubSeq(email, k + 1, Len(email)))

\* UserManager.create_user: the outcome of the call on the user table; an
\* empty email raises ValueError before anything is saved, a stored email
\* is unique.
UserManager_create_user(email, is_staff, is_superuser) ==
    LET row == [email |-> normalize_email(email), is_staff |-> is_staff,
                is_superuser |-> is_superuser]
    IN  IF email = <<>>
        THEN [raised |-> "ValueError", user |-> <<>>, users |-> users]
        ELSE IF \E u \in users : u.email = row.email
        THEN [raised |-> "IntegrityError", user |-> <<>>, users |-> users]
        ELSE [raised |-> "", user |-> <<row>>, users |-> users \cup {row}]

\* UserManager.create_superuser: create_user, then is_staff and
\* is_superuser set and saved.
UserManager_create_superuser(email) ==
    UserManager_create_user(email, TRUE, TRUE)

\* Mutant: the defaults laid over the arguments (params.update(defaults)).
defaults_override_params(params) == DefaultEmail

\* defaults.update(params): the email given, else the default one.
defaults_update(params) ==
    IF params.email = <<>> THEN DefaultEmail ELSE params.email[1]

\* Mutant: is_superuser popped and not looked at.
is_superuser_ignored(params) == FALSE

\* params.pop("is_superuser", False)
pop_is_superuser(params) ==
    IF params.is_superuser = <<>> THEN FALSE ELSE params.is_superuser[1]

\* core.helper.create_user(**params)
create_user(params) ==
    LET out == IF pop_is_superuser(params)
               THEN UserManager_create_superuser(defaults_update(params))
               ELSE UserManager_create_user(defaults_update(params), FALSE, FALSE)
    IN  /\ ret = NoCall
        /\ Cardinality(out.users) <= MaxUsers
        /\ users' = out.users
        /\ ret' = [call |-> <<params>>, raised |-> out.raised, user |-> out.user]
        /\ UNCHANGED <<db, res, writes>>

\* The caller has the user or the exception; the next call can be made.
Return ==
    /\ ret # NoCall
    /\ ret' = NoCall
    /\ UNCHANGED <<db, res, users, writes>>

NextUsers ==
    \/ \E params \in UserParams : create_user(params)
    \/ Return

SpecUsers == Init /\ [][NextUsers]_vars

\* ------------------------------------------------- concurrent recipe writes
\* Recipe creates that name one tag, handled at once: the reconciliation of
\* each is a lookup and then an insert, two statements with the statements
\* of the other writes between them; the tag table has no uniqueness
\* constraint on (user, name).

\* Mutant: the lookup by name alone.
lookup_any_user(user, name) == {t.id : t \in {x \in tags : x.name = name}}

\* The lookup of get-or-create: the ids of the user's rows of that name.
lookup(user, name) ==
    {t.id : t \in {x \in tags : x.user = user /\ x.name = name}}

\* The write begins: the recipe row is inserted for the caller.
RaceBegin(w) ==
    /\ writes[w].pc = "begin"
    /\ \E user \in Users, name \in TagNames :
          /\ recipes' = recipes \cup {[id |-> seq.recipe, user |-> perform_create(user),
                                       image |-> NoImage]}
          /\ seq' = [seq EXCEPT !.recipe = @ + 1]
          /\ writes' = [writes EXCEPT ![w] =
                           [NoWrite EXCEPT !.pc = "lookup", !.user = user,
                                           !.name = name, !.rid = seq.recipe]]
    /\ UNCHANGED <<tags, ingredients, recipe_tags, recipe_ingredients, res, usr>>

\* The lookup statement.
RaceLookup(w) ==
    /\ writes[w].pc = "lookup"
    /\ writes' = [writes EXCEPT ![w].pc = "insert",
                                ![w].found = lookup(writes[w].user, writes[w].name)]
    /\ UNCHANGED <<db, res, usr>>

\* The insert statement, made when the lookup found no row; a row it found
\* is taken instead.
RaceInsert(w) ==
    /\ writes[w].pc = "insert"
    /\ IF writes[w].found = {}
       THEN /\ tags' = tags \cup {[id |-> seq.tag, user |-> writes[w].user,
                                    name |-> writes[w].name]}
            /\ seq' = [seq EXCEPT !.tag = @ + 1]
            /\ writes' = [writes EXCEPT ![w].pc = "link", ![w].resolved = seq.tag]
       ELSE /\ \E id \in writes[w].found :
                  writes' = [writes EXCEPT ![w].pc = "link", ![w].resolved = id]
            /\ UNCHANGED <<tags, seq>>
    /\ UNCHANGED <<recipes, ingredients, recipe_tags, recipe_ingredients, res, usr>>

\* The recipe's tags set to the resolved row.
RaceLink(w) ==
    /\ writes[w].pc = "link"
    /\ recipe_tags' = set_links(recipe_tags, writes[w].rid, {writes[w].resolved})
    /\ writes' = [writes EXCEPT ![w].pc = "done"]
    /\ UNCHANGED <<recipes, tags, ingredients, recipe_ingredients, seq, res, usr>>

NextRace ==
    \/ \E w \in 1..MaxWrites : RaceBegin(w)
    \/ \E w \in 1..MaxWrites : RaceLookup(w)
    \/ \E w \in 1..MaxWrites : RaceInsert(w)
    \/ \E w \in 1..MaxWrites : RaceLink(w)

SpecRace == Init /\ [][NextRace]_vars

\* ---------------------------------------------------------------- claims
ListOps == {"list_recipes", "list_tags", "list_ingredients"}
RecipeDetailOps == {"retrieve_recipe", "update_recipe", "destroy_recipe"}

\* The table a list route reads.
TableOf(op) ==
    CASE op = "list_recipes" -> recipes
      [] op = "list_tags" -> tags
      [] op = "list_ingredients" -> ingredients

\* C1: every row a successful list request returns is a row of the listed
\* table owned by the caller; no row of another user appears, whatever
\* names the users share.
C1_ListOwnerScoped ==
    (res.op \in ListOps /\ res.status = HTTP_200_OK) =>
        \A k \in 1..Len(res.data) :
            \E row \in TableOf(res.op) :
                row.id = res.data[k].id /\ row.user = res.caller

\* A tag list that returned a row while another user owns a tag of the
\* same name.
C1_Witness ==
    /\ res.op = "list_tags"
    /\ res.status = HTTP_200_OK
    /\ Len(res.data) >= 1
    /\ \E t \in tags : t.user # res.caller /\ t.name = res.data[1].name

\* C2: a retrieve, update or delete of a recipe id that exists but belongs
\* to another user than the (authenticated) caller answers 404, as it does
\* for an absent id, and leaves the recipe row and its links as they were.
C2_CrossUserNotFound ==
    [][\A pk \in 1..MaxRows :
         (/\ res'.op \in RecipeDetailOps
          /\ res'.id = pk
          /\ res'.caller \in Users
          /\ ~\E r \in recipes : r.id = pk /\ r.user = res'.caller)
         => /\ res'.status = HTTP_404_NOT_FOUND
            /\ res'.data = <<>>
            /\ UNCHANGED db]_vars

\* An update answered 404 on a recipe that exists and is another user's.
C2_Witness ==
    /\ res.op = "update_recipe"
    /\ res.status = HTTP_404_NOT_FOUND
    /\ res.caller \in Users
    /\ \E r \in recipes : r.id = res.id /\ r.user # res.caller

\* C3: a recipe row appears only by a successful create, with a fresh id and
\* the caller as its owner, and no request changes the owner of a recipe
\* that exists, whatever `user` its body names.
C3_OwnerIsCreator ==
    [][\A r2 \in recipes' :
         IF \E r \in recipes : r.id = r2.id
         THEN \A r \in recipes : r.id = r2.id => r.user = r2.user
         ELSE /\ res'.op = "create_recipe"
              /\ res'.status = HTTP_201_CREATED
              /\ r2.user = res'.caller
              /\ r2.id = seq.recipe
              /\ seq'.recipe > r2.id]_vars

\* An update whose body names another user as `user` succeeded on a recipe
\* that is still the caller's.
C3_Witness ==
    /\ res.op = "update_recipe"
    /\ res.status = HTTP_200_OK
    /\ res.input[1].user # <<>>
    /\ res.input[1].user[1] # res.caller
    /\ \E r \in recipes : r.id = res.id /\ r.user = res.caller

\* C4: a request without valid credentials answers 401, returns no row and
\* leaves every table as it was.
C4_Unauthenticated401 ==
    [][(res'.op # "idle" /\ res'.caller \notin Users)
         => /\ res'.status = HTTP_401_UNAUTHORIZED
            /\ res'.data = <<>>
            /\ UNCHANGED db]_vars

\* An anonymous update of a recipe that exists was answered 401.
C4_Witness ==
    /\ res.op = "update_recipe"
    /\ res.caller = AnonymousUser
    /\ res.status = HTTP_401_UNAUTHORIZED
    /\ \E r \in recipes : r.id = res.id

\* A recipe write that succeeded: its body is res.input[1], the recipe it
\* wrote is res.data[1].
WriteOps == {"create_recipe", "update_recipe"}
WriteOk(r) ==
    /\ r.op \in WriteOps
    /\ r.status \in {HTTP_200_OK, HTTP_201_CREATED}

Owned(rows, user, name) == {t \in rows : t.user = user /\ t.name = name}
Linked(rows, links, rid) == {t \in rows : <<rid, t.id>> \in links}
NoDuplicateNames(rows, user) ==
    \A n \in Names : Cardinality(Owned(rows, user, n)) <= 1

\* One table (tags or ingredients) across a recipe write by `c` of recipe
\* `rid` whose body has `field` for it: a name the caller owned no row of
\* gets exactly one new row, linked to the recipe; a name the caller owned
\* keeps its rows, one of them linked; nothing else is created.
ReconciledByName(rows, rowsP, linksP, rid, c, field) ==
    /\ \A n \in Names :
          IF field # <<>> /\ n \in Range(field[1]) /\ Owned(rows, c, n) = {}
          THEN /\ Cardinality(Owned(rowsP, c, n)) = 1
               /\ Owned(rowsP, c, n) \subseteq Linked(rowsP, linksP, rid)
          ELSE /\ Owned(rowsP, c, n) = Owned(rows, c, n)
               /\ (field # <<>> /\ n \in Range(field[1])) =>
                     Owned(rows, c, n) \cap Linked(rowsP, linksP, rid) # {}
    /\ {t \in rowsP : t.user # c} = {t \in rows : t.user # c}
    /\ NoDuplicateNames(rows, c) => NoDuplicateNames(rowsP, c)

\* C5: a recipe create or update creates a row for a named tag (ingredient)
\* only when the caller owns no row of that name and otherwise reuses a row
\* the caller owns; so a write never gives a caller without duplicate names
\* a duplicate, and naming a name again leaves its one row.
C5_GetOrCreateByName ==
    [][WriteOk(res') =>
         /\ ReconciledByName(tags, tags', recipe_tags', res'.data[1].id,
                             res'.caller, res'.input[1].tags)
         /\ ReconciledByName(ingredients, ingredients', recipe_ingredients',
                             res'.data[1].id, res'.caller,
                             res'.input[1].ingredients)]_vars

\* A write named a tag that the caller has exactly one row of, and that row
\* is linked to two recipes: the second write naming it reused the row.
C5_Witness ==
    /\ WriteOk(res)
    /\ res.input[1].tags # <<>>
    /\ \E t \in tags :
          /\ t.user = res.caller
          /\ t.name \in Range(res.input[1].tags[1])
          /\ Owned(tags, res.caller, t.name) = {t}
          /\ \A r \in 1..2 : <<r, t.id>> \in recipe_tags
          /\ res.data[1].id = 2

\* The links of recipe `rid` after a write whose body listed `names`: every
\* link leads to a row, every listed name has a linked row, and every linked
\* row is a row of the caller with a listed name.
LinksExactly(rows, links, rid, c, names) ==
    LET linked == Linked(rows, links, rid) IN
    /\ {l[2] : l \in {x \in links : x[1] = rid}} = {t.id : t \in linked}
    /\ {t.name : t \in linked} = Range(names)
    /\ \A t \in linked : t.user = c

\* C6: after a recipe create or update whose body supplies a tags
\* (ingredients) list, the recipe is linked to exactly the rows the names
\* resolve to: rows of the caller, for every listed name and for no other.
C6_LinksReplaced ==
    WriteOk(res) =>
        /\ res.input[1].tags # <<>> =>
              LinksExactly(tags, recipe_tags, res.data[1].id, res.caller,
                           res.input[1].tags[1])
        /\ res.input[1].ingredients # <<>> =>
              LinksExactly(ingredients, recipe_ingredients, res.data[1].id,
                           res.caller, res.input[1].ingredients[1])

\* An update listed one tag name on a recipe that is now linked to that tag
\* only, while the caller owns a tag of another name, no longer linked.
C6_Witness ==
    /\ res.op = "update_recipe"
    /\ res.status = HTTP_200_OK
    /\ res.input[1].tags # <<>>
    /\ Len(res.input[1].tags[1]) = 1
    /\ Cardinality(Linked(tags, recipe_tags, res.id)) = 1
    /\ \E t \in tags :
          /\ t.user = res.caller
          /\ t.name \notin Range(res.input[1].tags[1])
          /\ <<res.id, t.id>> \notin recipe_tags
          /\ seq.recipe = 2

LinksOf(links, rid) == {l \in links : l[1] = rid}

\* C7: a recipe update that omits tags (ingredients) leaves the recipe's
\* links and the table as they were; one that supplies the empty list
\* leaves the recipe without links and every row of the table in place; the
\* links of the other recipes are never touched.
C7_UpdateFrame ==
    [][(res'.op = "update_recipe" /\ res'.status = HTTP_200_OK) =>
         LET rid == res'.id
             body == res'.input[1] IN
         /\ body.tags = <<>> =>
               /\ recipe_tags' = recipe_tags
               /\ tags' = tags
         /\ body.tags = <<<<>>>> =>
               /\ LinksOf(recipe_tags', rid) = {}
               /\ tags' = tags
         /\ body.ingredients = <<>> =>
               /\ recipe_ingredients' = recipe_ingredients
               /\ ingredients' = ingredients
         /\ body.ingredients = <<<<>>>> =>
               /\ LinksOf(recipe_ingredients', rid) = {}
               /\ ingredients' = ingredients
         /\ recipe_tags' \ LinksOf(recipe_tags', rid)
               = recipe_tags \ LinksOf(recipe_tags, rid)
         /\ recipe_ingredients' \ LinksOf(recipe_ingredients', rid)
               = recipe_ingredients \ LinksOf(recipe_ingredients, rid)
         /\ recipes' = recipes]_vars

\* An update with "tags": [] and no ingredients field succeeded on the only
\* recipe there has been: it has no tag link, its ingredient link is kept,
\* and the caller's tag row is still in the table.
C7_Witness ==
    /\ res.op = "update_recipe"
    /\ res.status = HTTP_200_OK
    /\ res.input[1].tags = <<<<>>>>
    /\ res.input[1].ingredients = <<>>
    /\ seq.recipe = 2
    /\ recipe_tags = {}
    /\ recipe_ingredients # {}
    /\ \E t \in tags : t.user = res.caller

\* C8: every tag and ingredient linked to a recipe is a row owned by the
\* recipe's owner; and after a write the rows linked for the listed names
\* are the caller's own, also when another user has a row of that name.
C8_LinkedRowsSameOwner ==
    /\ \A l \in recipe_tags :
          \E r \in recipes, t \in tags :
             r.id = l[1] /\ t.id = l[2] /\ r.user = t.user
    /\ \A l \in recipe_ingredients :
          \E r \in recipes, i \in ingredients :
             r.id = l[1] /\ i.id = l[2] /\ r.user = i.user
    /\ WriteOk(res) =>
          /\ \A r \in recipes : r.id = res.data[1].id => r.user = res.caller
          /\ res.input[1].tags # <<>> =>
                \A t \in Linked(tags, recipe_tags, res.data[1].id) :
                   t.user = res.caller
          /\ res.input[1].ingredients # <<>> =>
                \A i \in Linked(ingredients, recipe_ingredients, res.data[1].id) :
                   i.user = res.caller

\* A write listed a tag name that another user already had a row of, and
\* the recipe is linked to a row of the caller's, not to the other user's.
C8_Witness ==
    /\ WriteOk(res)
    /\ res.input[1].tags # <<>>
    /\ \E t \in tags, o \in tags :
          /\ o.user # res.caller
          /\ o.id < t.id
          /\ o.name = t.name
          /\ t.name \in Range(res.input[1].tags[1])
          /\ t.user = res.caller
          /\ Linked(tags, recipe_tags, res.data[1].id) = {t}

\* The caller's recipes that have a link into each id set the query gives.
FilteredRecipes(caller, query) ==
    {r \in recipes :
        /\ r.user = caller
        /\ query.tags # <<>> =>
              \E tid \in query.tags[1] : <<r.id, tid>> \in recipe_tags
        /\ query.ingredients # <<>> =>
              \E iid \in query.ingredients[1] : <<r.id, iid>> \in recipe_ingredients}

\* C9: a recipe list with a tags and/or ingredients id list returns exactly
\* the caller's recipes that have a tag among the tag ids (when given) and
\* an ingredient among the ingredient ids (when given).
C9_FilterByIds ==
    (res.op = "list_recipes" /\ res.status = HTTP_200_OK) =>
        {res.data[k].id : k \in 1..Len(res.data)}
            = {r.id : r \in FilteredRecipes(res.caller, res.input[1])}

\* The rows of a tag or ingredient table, with its link table.
AttrRows(op) == IF op = "list_tags" THEN tags ELSE ingredients
AttrLinks(op) == IF op = "list_tags" THEN recipe_tags ELSE recipe_ingredients

\* C10: a tag or ingredient list with assigned_only set returns each of the
\* caller's rows that some recipe is linked to exactly once, and no row
\* without a link.
C10_AssignedOnly ==
    (/\ res.op \in {"list_tags", "list_ingredients"}
     /\ res.status = HTTP_200_OK
     /\ res.input[1] = TRUE) =>
        LET assigned == {t \in AttrRows(res.op) :
                            /\ t.user = res.caller
                            /\ \E l \in AttrLinks(res.op) : l[2] = t.id}
        IN  /\ {res.data[k].id : k \in 1..Len(res.data)} = {t.id : t \in assigned}
            /\ Len(res.data) = Cardinality(assigned)

\* A row of `rows` with that pk owned by `c`.
OwnedRow(rows, pk, c) == \E row \in rows : row.id = pk /\ row.user = c

\* The owner `res.caller` sent `op` for a row of `rows` and was answered 204
\* with the row gone from `rowsP`.
OwnerDeleteRemoves(op, r, rows, rowsP) ==
    (r.op = op /\ r.caller \in Users /\ OwnedRow(rows, r.id, r.caller)) =>
        /\ r.status = HTTP_204_NO_CONTENT
        /\ ~\E row \in rowsP : row.id = r.id

\* C11: a DELETE by the owner on a recipe, tag or ingredient detail route
\* answers 204 and the row is gone afterwards; ingredients as recipes and
\* tags.
C11_OwnerDeleteRemoves ==
    [][/\ OwnerDeleteRemoves("destroy_recipe", res', recipes, recipes')
       /\ OwnerDeleteRemoves("destroy_tag", res', tags, tags')
       /\ OwnerDeleteRemoves("destroy_ingredient", res', ingredients,
                             ingredients')]_vars

\* C11 for the two view sets that have a destroy action.
C11_RecipeAndTagDeleteRemoves ==
    [][/\ OwnerDeleteRemoves("destroy_recipe", res', recipes, recipes')
       /\ OwnerDeleteRemoves("destroy_tag", res', tags, tags')]_vars

\* C12: an upload to a recipe of the caller's whose `image` is no valid
\* image answers 400 and leaves the recipe row, its image included, as it
\* was.
C12_BadImageRejected ==
    [][(/\ res'.op = "upload_image"
        /\ res'.caller \in Users
        /\ OwnedRow(recipes, res'.id, res'.caller)
        /\ res'.input = <<"notimage">>)
         => /\ res'.status = HTTP_400_BAD_REQUEST
            /\ \A r \in recipes : r.id = res'.id => r \in recipes']_vars

\* A create_user call that has come back: its arguments, the email it gave.
Called(r) == r.call # <<>>
Returned(r) == Called(r) /\ r.raised = ""
EmptyEmail(r) == r.call[1].email = <<<<>>>>

\* C13: create_user with an empty email raises ValueError and the user table
\* is the same after the call as before it.
C13_EmptyEmailRejected ==
    [][(Called(ret') /\ EmptyEmail(ret'))
         => /\ ret'.raised = "ValueError"
            /\ ret'.user = <<>>
            /\ users' = users]_vars

\* A call with an empty email raised ValueError on a table that has a row.
C13_Witness ==
    /\ Called(ret)
    /\ EmptyEmail(ret)
    /\ ret.raised = "ValueError"
    /\ users # {}

\* C14: a create_user call that returns a user has stored that user; with
\* is_superuser=True the user has is_staff and is_superuser set, without it
\* (or with False) neither; and with is_superuser=True and an email that is
\* not empty the call on an empty table does return a user.
C14_SuperuserFlags ==
    [][Called(ret') =>
         LET p == ret'.call[1] IN
         /\ Returned(ret') =>
               LET u == ret'.user[1] IN
               /\ u \in users' /\ u \notin users
               /\ IF p.is_superuser = <<TRUE>>
                  THEN u.is_staff /\ u.is_superuser
                  ELSE ~u.is_staff /\ ~u.is_superuser
         /\ (p.is_superuser = <<TRUE>> /\ ~EmptyEmail(ret') /\ users = {}) =>
               Returned(ret')]_vars

\* A call with is_superuser=True returned a stored user with both flags set.
C14_Witness ==
    /\ Returned(ret)
    /\ ret.call[1].is_superuser = <<TRUE>>
    /\ ret.user[1] \in users
    /\ ret.user[1].is_staff
    /\ ret.user[1].is_superuser

\* A valid email: one "@", with something before it and something after it.
ValidEmail(e) ==
    /\ Cardinality({k \in 1..Len(e) : e[k] = "@"}) = 1
    /\ e[1] # "@"
    /\ e[Len(e)] # "@"

\* `s` is `e` with the part after the "@" in lower case and the part before
\* it as it is.
DomainLowered(e, s) ==
    /\ Len(s) = Len(e)
    /\ \A k \in 1..Len(e) :
          IF k <= LastAt(e) THEN s[k] = e[k]
          ELSE s[k] = (IF e[k] = "A" THEN "a" ELSE e[k])

\* C15: a create_user call given a valid email that returns a user has
\* stored the email with the part after the "@" lower-cased and the part
\* before it unchanged, letter case included.
C15_EmailNormalized ==
    [][(Returned(ret') /\ ret'.call[1].email # <<>>) =>
         LET e == ret'.call[1].email[1]
             u == ret'.user[1] IN
         ValidEmail(e) => (u \in users' /\ DomainLowered(e, u.email))]_vars

\* "A@A" was given and "A@a" is stored.
C15_Witness ==
    /\ Returned(ret)
    /\ ret.call[1].email = <<<<"A", "@", "A">>>>
    /\ \E u \in users : u.email = <<"A", "@", "a">>

AllDone == \A w \in 1..MaxWrites : writes[w].pc = "done"

\* The writes by `user` that name `name`.
WritesOf(user, name) ==
    {w \in 1..MaxWrites : writes[w].user = user /\ writes[w].name = name}

\* C17 as stated: when two interleaved writes by one user name the same tag,
\* which did not exist, every final state has exactly one tag row of that
\* name for that user.
C17_RaceConverges ==
    AllDone =>
        \A user \in Users, name \in TagNames :
            Cardinality(WritesOf(user, name)) >= 2 =>
                Cardinality(Owned(tags, user, name)) = 1

\* C17 amended: in every final state the user has at least one row of the
\* name and at most one for each write that named it, and each of these
\* writes has linked its recipe to exactly one of the rows.
C17_RaceBounded ==
    AllDone =>
        \A user \in Users, name \in TagNames :
            LET ws == WritesOf(user, name)
                rows == Owned(tags, user, name) IN
            ws # {} =>
                /\ Cardinality(rows) >= 1
                /\ Cardinality(rows) <= Cardinality(ws)
                /\ \A w \in ws :
                      /\ Cardinality(LinksOf(recipe_tags, writes[w].rid)) = 1
                      /\ Linked(tags, recipe_tags, writes[w].rid) \subseteq rows
                      /\ Linked(tags, recipe_tags, writes[w].rid) # {}

\* Two writes by one user named the same tag, both lookups came before both
\* inserts, and the user has two rows of the name.
C17_Witness ==
    /\ AllDone
    /\ \E user \in Users, name \in TagNames :
          /\ Cardinality(WritesOf(user, name)) >= 2
          /\ Cardinality(Owned(tags, user, name)) = 2

====
